---- MODULE Spec2Model ----
(***************************************************************************)
(* Model of the two MultiSymbolPatternDetector classes of pocketoptionapi: *)
(*   - ml/pattern_detector.py  (basic variant: add_tick)                    *)
(*   - ml/pattern_detection.py (extended variant: process_tick)             *)
(*                                                                         *)
(* Floats are modelled by exact rationals <<numerator, denominator>> over  *)
(* small integer prices; NaN stands for any non-finite float, which        *)
(* scikit-learn's input validation rejects with ValueError.                *)
(***************************************************************************)
EXTENDS Integers, Sequences, FiniteSets, TLC

\* ------------------------------------------------------------------ bounds
MaxWindow == 3      \* largest window argument passed to the constructor
MaxTicks  == 4      \* number of add_tick calls explored
MaxPrice  == 3      \* finite prices are 1..MaxPrice
MaxCalls  == 2      \* number of process_tick calls explored

\* ------------------------------------------------------------- input sets
\* symbols passed to the constructor (examples/pattern_dashboard.py:14)
Symbols == {"EURUSD", "GBPUSD"}
\* a symbol that was never passed to the constructor
Unregistered == "XAUUSD"
SymbolArgs == Symbols \cup {Unregistered}

\* a price that is not a finite float (inf, nan)
NaN == 0 - 1
Prices == (1..MaxPrice) \cup {NaN}
WindowArgs == (0 - 1)..MaxWindow
\* two outcomes of IsolationForest's unseeded random state
Seeds == {1, 2}

\* def __init__(self, symbols, window: int = 100)
DefaultWindow == 100

\* TickData(timestamp, price, volume=None)
TickData(timestamp, price) ==
    [timestamp |-> timestamp, price |-> price, volume |-> "None"]

\* ------------------------------------------------------- exact arithmetic
Abs(n) == IF n < 0 THEN 0 - n ELSE n

RECURSIVE GCD(_, _)
GCD(a, b) == IF b = 0 THEN a ELSE GCD(b, a % b)

\* the rational n/d in lowest terms with a positive denominator
Rat(n, d) ==
    LET g == GCD(Abs(n), Abs(d))
        s == IF d < 0 THEN 0 - 1 ELSE 1
    IN  <<s * (n \div g), s * (d \div g)>>

RatAdd(p, q) == Rat(p[1] * q[2] + q[1] * p[2], p[2] * q[2])
RatMul(p, q) == Rat(p[1] * q[1], p[2] * q[2])

\* float(x) of a price
Float(x) == <<x, 1>>

RECURSIVE SumTo(_, _)
\* sum of f[i] for i in 1..n
SumTo(f, n) == IF n = 0 THEN 0 ELSE SumTo(f, n - 1) + f[n]

\* --------------------------------------------------------- numpy / pandas
\* df[["price"]].values : the price column of the buffered ticks
PriceColumn(buffer) == [i \in 1..Len(buffer) |-> buffer[i].price]

\* sklearn's check_array: every entry is a finite float
AllFinite(X) == \A i \in 1..Len(X) : X[i] # NaN

\* ------------------------------------------------------------------ deque
\* deque(maxlen=window).append(tick): append on the right, and drop from
\* the left when the deque is over its maximum length
DequeAppend_Restart(buffer, tick, maxlen) ==
    IF Len(buffer) >= maxlen THEN <<tick>> ELSE Append(buffer, tick)

DequeAppend_NoEvict(buffer, tick, maxlen) ==
    IF Len(buffer) >= maxlen THEN buffer ELSE Append(buffer, tick)

DequeAppend(buffer, tick, maxlen) ==
    LET appended == Append(buffer, tick)
    IN  IF Len(appended) > maxlen
        THEN SubSeq(appended, Len(appended) - maxlen + 1, Len(appended))
        ELSE appended

\* --------------------------------------------------------- IsolationForest
\* IsolationForest(contamination=0.01), not fitted
NewIsolationForest == [fitted |-> FALSE, X |-> <<>>, seed |-> 0]

\* IsolationForest.fit(X): the forest is a function of the training data
\* and of the random state, which the constructor leaves unseeded
IsolationForestFit(X, seed) == [fitted |-> TRUE, X |-> X, seed |-> seed]

\* the value 0.0 of the result's default anomaly_score
ZeroScore == [X |-> <<>>, seed |-> 0, sample |-> 0]

NegScoreLast_First(model, X) ==
    [X |-> model.X, seed |-> model.seed, sample |-> X[1]]

\* -model.score_samples(X)[-1]: the negated score of the last row of X
\* under the fitted forest; a positive number, kept symbolic
NegScoreLast(model, X) ==
    [X |-> model.X, seed |-> model.seed, sample |-> X[Len(X)]]

\* -------------------------------------------------------- LinearRegression
\* LinearRegression(), not fitted
NewLinearRegression ==
    [fitted |-> FALSE, coef |-> <<0, 1>>, intercept |-> <<0, 1>>]

LinearRegressionFit_FromOne(y) ==
    LET n   == Len(y)
        Sx  == SumTo([i \in 1..n |-> i], n)
        Sxx == SumTo([i \in 1..n |-> i * i], n)
        Sy  == SumTo(y, n)
        Sxy == SumTo([i \in 1..n |-> i * y[i]], n)
        den == n * Sxx - Sx * Sx
        coef == IF den = 0 THEN <<0, 1>> ELSE Rat(n * Sxy - Sx * Sy, den)
        intercept == RatAdd(Rat(Sy, n), RatMul(Rat(0 - Sx, n), coef))
    IN  [fitted |-> TRUE, coef |-> coef, intercept |-> intercept]

\* LinearRegression.fit(np.arange(len(y)), y): least squares of y[i] on the
\* index i-1 (numpy indices start at 0). With a single sample the
\* minimum-norm solution has slope 0.
LinearRegressionFit(y) ==
    LET n   == Len(y)
        Sx  == SumTo([i \in 1..n |-> i - 1], n)
        Sxx == SumTo([i \in 1..n |-> (i - 1) * (i - 1)], n)
        Sy  == SumTo(y, n)
        Sxy == SumTo([i \in 1..n |-> (i - 1) * y[i]], n)
        den == n * Sxx - Sx * Sx
        coef == IF den = 0 THEN <<0, 1>> ELSE Rat(n * Sxy - Sx * Sy, den)
        intercept == RatAdd(Rat(Sy, n), RatMul(Rat(0 - Sx, n), coef))
    IN  [fitted |-> TRUE, coef |-> coef, intercept |-> intercept]

\* LinearRegression.predict([[index]])[0]
Predict(regressor, index) ==
    RatAdd(regressor.intercept, RatMul(regressor.coef, Float(index)))

NextIndex_OnePast(X) == Len(X) + 1

\* next_index = np.array([[len(X)]])
NextIndex(X) == Len(X)

\* ------------------------------------------------------------------ state
VARIABLES
    variant,      \* which of the two MultiSymbolPatternDetector classes runs
    window,       \* self.window, the constructor's window argument
    constructed,  \* whether __init__ returned a detector
    buffers,      \* self.buffers: symbol -> deque of TickData
    models,       \* self.models: symbol -> IsolationForest
    regressors,   \* self.regressors: symbol -> LinearRegression
    trained,      \* self.trained: symbol -> bool
    clock,        \* number of add_tick calls made
    received,     \* history: symbol -> every tick appended for it, in order
    fits,         \* history: symbol -> number of completed fits
    fit_result,   \* history: symbol -> result of the first call that fitted
    last,         \* history: the last add_tick call and how it ended
    pattern_models,       \* extended variant: keys of self.models["pattern"]
    pattern_history,      \* extended variant: self.pattern_history
    manipulation_scores,  \* extended variant: self.manipulation_scores
    calls,        \* number of process_tick calls made
    ext_last,     \* history: the last process_tick call and how it ended
    gui_data,     \* TradingGUI.data: symbol -> rows, in insertion order
    gui_pc,       \* where TradingGUI.run_prediction stands
    gui_todo,     \* the rows run_prediction's loops have still to visit
    gui_log       \* history: the process_tick calls of the last run

detector == <<buffers, models, regressors, trained>>
basic == <<variant, window, constructed, buffers, models, regressors, trained,
           clock, received, fits, fit_result, last>>
extended == <<pattern_models, pattern_history, manipulation_scores, calls,
              ext_last>>
gui == <<gui_data, gui_pc, gui_todo, gui_log>>
vars == <<variant, window, constructed, buffers, models, regressors, trained,
          clock, received, fits, fit_result, last,
          pattern_models, pattern_history, manipulation_scores, calls,
          ext_last, gui_data, gui_pc, gui_todo, gui_log>>

\* the value of result when the call raised instead of returning
NoResult == [anomaly_score |-> ZeroScore, prediction |-> <<0, 1>>]

NoCall ==
    [op |-> "none", symbol |-> "", tick |-> TickData(0, 0),
     outcome |-> "none", result |-> NoResult, fit |-> "none", full |-> FALSE]

\* MultiSymbolPatternDetector.__init__(symbols, window): deque(maxlen=window)
\* raises ValueError for a negative window; nothing else is validated
InitDetector ==
    /\ window \in WindowArgs
    /\ constructed = (window >= 0)
    /\ buffers = [s \in Symbols |-> <<>>]
    /\ models = [s \in Symbols |-> NewIsolationForest]
    /\ regressors = [s \in Symbols |-> NewLinearRegression]
    /\ trained = [s \in Symbols |-> FALSE]
    /\ clock = 0
    /\ received = [s \in Symbols |-> <<>>]
    /\ fits = [s \in Symbols |-> 0]
    /\ fit_result = [s \in Symbols |-> NoResult]
    /\ last = NoCall

\* symbol in self.symbols
Known(symbol) == symbol \in Symbols

IsFull_OffByOne(buffer) == Len(buffer) + 1 >= window

\* len(buffer) >= self.window
IsFull(buffer) == Len(buffer) >= window

NeedsFit_Always(symbol) == TRUE

\* not self.trained[symbol]
NeedsFit(symbol) == ~trained[symbol]

SetItem_Shared(mapping, key, value) == [k \in DOMAIN mapping |-> value]

\* mapping[key] = value
SetItem(mapping, key, value) == [mapping EXCEPT ![key] = value]

\* the call raised: what was assigned before the raise stays assigned
Raise(symbol, tick, exc, fit, full) ==
    last' = [op |-> "add_tick", symbol |-> symbol, tick |-> tick,
             outcome |-> exc, result |-> NoResult, fit |-> fit,
             full |-> full]

\* the call returned result
Return(symbol, tick, result, fit, full) ==
    last' = [op |-> "add_tick", symbol |-> symbol, tick |-> tick,
             outcome |-> "return", result |-> result, fit |-> fit,
             full |-> full]

RejectUnknown_Swallowed(symbol, tick) ==
    /\ Return(symbol, tick,
              [anomaly_score |-> ZeroScore, prediction |-> Float(tick.price)],
              "none", FALSE)
    /\ UNCHANGED <<detector, received, fits, fit_result>>

RejectUnknown_AutoCreate(symbol, tick) ==
    /\ Return(symbol, tick,
              [anomaly_score |-> ZeroScore, prediction |-> Float(tick.price)],
              "none", FALSE)
    /\ buffers' = [s \in DOMAIN buffers \cup {symbol} |->
                       IF s = symbol THEN <<tick>> ELSE buffers[s]]
    /\ UNCHANGED <<models, regressors, trained, received, fits, fit_result>>

\* if symbol not in self.symbols: raise ValueError
RejectUnknown(symbol, tick) ==
    /\ Raise(symbol, tick, "ValueError", "none", FALSE)
    /\ UNCHANGED <<detector, received, fits, fit_result>>

\* add_tick for a registered symbol, from buffer.append(tick) to return
AcceptTick(symbol, tick, seed) ==
    LET buffer == DequeAppend(buffers[symbol], tick, window)
        X == PriceColumn(buffer)
        default == [anomaly_score |-> ZeroScore,
                    prediction |-> Float(tick.price)]
    IN
    /\ buffers' = [buffers EXCEPT ![symbol] = buffer]
    /\ received' = [received EXCEPT ![symbol] = Append(@, tick)]
    /\ IF ~IsFull(buffer)
       THEN /\ Return(symbol, tick, default, "none", FALSE)
            /\ UNCHANGED <<models, regressors, trained, fits, fit_result>>
       ELSE IF Len(buffer) = 0
       THEN \* pd.DataFrame of an empty deque has no "price" column
            /\ Raise(symbol, tick, "KeyError", "none", TRUE)
            /\ UNCHANGED <<models, regressors, trained, fits, fit_result>>
       ELSE IF ~AllFinite(X)
       THEN \* models[symbol].fit(X) or score_samples(X) rejects the input
            /\ Raise(symbol, tick, "ValueError",
                     IF NeedsFit(symbol) THEN "raised" ELSE "none", TRUE)
            /\ UNCHANGED <<models, regressors, trained, fits, fit_result>>
       ELSE LET fit == NeedsFit(symbol)
                model == IF fit THEN IsolationForestFit(X, seed)
                         ELSE models[symbol]
                regressor == IF fit THEN LinearRegressionFit(X)
                             ELSE regressors[symbol]
                result == [anomaly_score |-> NegScoreLast(model, X),
                           prediction |-> Predict(regressor, NextIndex(X))]
            IN  /\ models' = SetItem(models, symbol, model)
                /\ regressors' = SetItem(regressors, symbol, regressor)
                /\ trained' = IF fit THEN SetItem(trained, symbol, TRUE)
                               ELSE trained
                /\ fits' = [fits EXCEPT
                              ![symbol] = IF fit THEN @ + 1 ELSE @]
                /\ fit_result' = [fit_result EXCEPT
                              ![symbol] = IF fit /\ fits[symbol] = 0
                                          THEN result ELSE @]
                /\ Return(symbol, tick, result,
                          IF fit THEN "done" ELSE "none", TRUE)

\* the caller stamps each symbol's ticks in time order: the timestamp is
\* the tick's position in its symbol's stream
Timestamp(symbol) ==
    IF symbol \in DOMAIN received THEN Len(received[symbol]) ELSE 0

\* MultiSymbolPatternDetector.add_tick(symbol, tick)
AddTick(symbol, price, seed) ==
    LET tick == TickData(Timestamp(symbol), price)
    IN  /\ constructed
        /\ clock < MaxTicks
        /\ clock' = clock + 1
        /\ UNCHANGED <<variant, window, constructed>>
        /\ UNCHANGED extended
        /\ UNCHANGED gui
        /\ IF Known(symbol)
           THEN AcceptTick(symbol, tick, seed)
           ELSE RejectUnknown(symbol, tick)

\* ------------------------------------------------------ extended variant
\* Python's None and a value that is not None
None == <<>>
Some(v) == <<v>>

\* bool(v) of an optional number
Truthy(v) == v # None /\ v[1] # 0

\* {} and d.update(e)
EmptyDict == [k \in {} |-> 0]
Update(d, e) ==
    [k \in DOMAIN d \cup DOMAIN e |-> IF k \in DOMAIN e THEN e[k] ELSE d[k]]

\* self.feature_extractors: two callables; when it does not raise, the
\* first returns {"ret": 1} and the second {"ret": 2, "vol": 2}
NumExtractors == 2
ExtractorResult(i) ==
    IF i = 1 THEN [k \in {"ret"} |-> 1] ELSE [k \in {"ret", "vol"} |-> 2]

\* the names a pattern model can be registered under in
\* self.models["pattern"]; the constructor is given any subset of them
PatternNames == {"spike", "spoof"}
\* what a pattern model's predict does on one call: raise, or return 0 or 1
ModelOutcomes == {[raised |-> TRUE, value |-> 0],
                  [raised |-> FALSE, value |-> 0],
                  [raised |-> FALSE, value |-> 1]}

\* self.models["price"]: a price model for one symbol only
PriceModelSymbols == {"EURUSD"}

\* the tick_data dict the caller passes (gui/interface.py:132)
TickDict(symbol, time) == [symbol |-> symbol, time |-> time, price |-> 1]

RECURSIVE ExtractFeatures_ResetOnError(_, _)
ExtractFeatures_ResetOnError(raising, n) ==
    IF n \in raising \/ n = 0 THEN EmptyDict
    ELSE Update(ExtractFeatures_ResetOnError(raising, n - 1),
                ExtractorResult(n))

RECURSIVE ExtractFeatures(_, _)
\* extract_features: the features after the first n extractors ran, where
\* the extractors in raising raised and were skipped
ExtractFeatures(raising, n) ==
    IF n = 0 THEN EmptyDict
    ELSE LET features == ExtractFeatures(raising, n - 1)
         IN  IF n \in raising THEN features
             ELSE Update(features, ExtractorResult(n))

DetectPatterns_AllOrNothing(outcomes) ==
    [name \in DOMAIN outcomes |->
        IF \E m \in DOMAIN outcomes : outcomes[m].raised THEN None
        ELSE Some(outcomes[name].value)]

\* detect_patterns: one entry per pattern model, None where predict raised
DetectPatterns(outcomes) ==
    [name \in DOMAIN outcomes |->
        IF outcomes[name].raised THEN None ELSE Some(outcomes[name].value)]

\* len([p for p in patterns.values() if p])
Triggered(patterns) == Cardinality({name \in DOMAIN patterns :
                                       Truthy(patterns[name])})

\* check_manipulation
CheckManipulation(patterns) == Float(Triggered(patterns))

\* predict_price: None without a model for the symbol or when predict raised
PredictPrice(symbol, outcome) ==
    IF symbol \notin PriceModelSymbols THEN None
    ELSE IF outcome.raised THEN None
    ELSE Some(outcome.value)

CalculateConfidence_SkipNone(patterns) ==
    LET evaluated == {name \in DOMAIN patterns : patterns[name] # None}
    IN  IF evaluated = {} THEN Float(0)
        ELSE Rat(Triggered(patterns), Cardinality(evaluated))

\* calculate_confidence
CalculateConfidence(patterns) ==
    IF DOMAIN patterns = {} THEN Float(0)
    ELSE Rat(Triggered(patterns), Cardinality(DOMAIN patterns))

NoExtResult ==
    [patterns |-> EmptyDict,
     manipulation_score |-> Float(0), prediction |-> None,
     confidence |-> Float(0)]

NoExtCall ==
    [op |-> "none", symbol |-> "", tick |-> TickDict("", 0),
     outcome |-> "none", result |-> NoExtResult, features |-> EmptyDict,
     extractors_raised |-> {},
     outcomes |-> EmptyDict]

\* TradingGUI.__post_init__: no data loaded, no prediction running
InitGui ==
    /\ gui_data = <<>>
    /\ gui_pc = "idle"
    /\ gui_todo = <<>>
    /\ gui_log = <<>>

\* MultiSymbolPatternDetector.__post_init__ of the extended variant
InitExtended ==
    /\ InitGui
    /\ pattern_models \in SUBSET PatternNames
    /\ pattern_history = [s \in Symbols |-> <<>>]
    /\ manipulation_scores = [s \in Symbols |-> Float(0)]
    /\ calls = 0
    /\ ext_last = NoExtCall

HistoryAppend_KeepLatest(history, record) == <<record>>

\* self.pattern_history[symbol].append(record)
HistoryAppend(history, record) == Append(history, record)

\* the time of a row is its position among the rows of its symbol
RowTime(symbol) ==
    IF symbol \in DOMAIN pattern_history
    THEN Len(pattern_history[symbol]) ELSE 0

ScoresAfter_Stored(symbol, manipulation_score) ==
    [manipulation_scores EXCEPT ![symbol] = manipulation_score]

\* self.manipulation_scores after a process_tick that returns: the method
\* computes the score, returns it and puts it in the history record, and
\* has no assignment to self.manipulation_scores
ScoresAfter(symbol, manipulation_score) == manipulation_scores

\* MultiSymbolPatternDetector.process_tick(symbol, tick_data) of a detector
\* that has the first `extractors` feature extractors
ProcessTickWith(symbol, tick_data, extractors, raising, outcomes, price) ==
    LET price_outcome == price
        features == ExtractFeatures(raising, extractors)
        patterns == DetectPatterns(outcomes)
        manipulation_score == CheckManipulation(patterns)
        prediction == PredictPrice(symbol, price_outcome)
        confidence == CalculateConfidence(patterns)
        result == [patterns |-> patterns,
                   manipulation_score |-> manipulation_score,
                   prediction |-> prediction,
                   confidence |-> confidence]
        call == [op |-> "process_tick", symbol |-> symbol,
                 tick |-> tick_data, outcome |-> "return",
                 result |-> result, features |-> features,
                 extractors_raised |-> raising,
                 outcomes |-> outcomes]
    IN  /\ calls < MaxCalls
        /\ calls' = calls + 1
        /\ UNCHANGED basic
        /\ UNCHANGED pattern_models
        /\ IF symbol \in DOMAIN pattern_history
           THEN /\ manipulation_scores' =
                       ScoresAfter(symbol, manipulation_score)
                /\ pattern_history' =
                       [pattern_history EXCEPT ![symbol] =
                           HistoryAppend(@,
                               [tick |-> tick_data,
                                patterns |-> patterns,
                                manipulation |-> manipulation_score,
                                prediction |-> prediction,
                                confidence |-> confidence])]
                /\ ext_last' = call
           ELSE \* self.pattern_history[symbol] raises KeyError
                /\ UNCHANGED <<pattern_history, manipulation_scores>>
                /\ ext_last' = [call EXCEPT !.outcome = "KeyError",
                                            !.result = NoExtResult]

\* process_tick called with the next row of the symbol
ProcessTick(symbol, raising, outcomes, price_outcome) ==
    /\ ProcessTickWith(symbol, TickDict(symbol, RowTime(symbol)),
                       NumExtractors, raising, outcomes, price_outcome)
    /\ UNCHANGED gui

\* the basic detector; the extended one is not called
Init ==
    /\ variant = "basic"
    /\ InitDetector
    /\ InitExtended
    /\ pattern_models = PatternNames

Next ==
    \E symbol \in SymbolArgs, price \in Prices, seed \in Seeds :
        AddTick(symbol, price, seed)

Spec == Init /\ [][Next]_vars

\* the extended detector alone: no add_tick is ever called
ExtInit ==
    /\ variant = "extended"
    /\ window = DefaultWindow /\ constructed = TRUE
    /\ buffers = [s \in Symbols |-> <<>>]
    /\ models = [s \in Symbols |-> NewIsolationForest]
    /\ regressors = [s \in Symbols |-> NewLinearRegression]
    /\ trained = [s \in Symbols |-> FALSE]
    /\ clock = 0
    /\ received = [s \in Symbols |-> <<>>]
    /\ fits = [s \in Symbols |-> 0]
    /\ fit_result = [s \in Symbols |-> NoResult]
    /\ last = NoCall
    /\ InitExtended

ExtNext ==
    \E symbol \in SymbolArgs, raising \in SUBSET (1..NumExtractors),
       outcomes \in [pattern_models -> ModelOutcomes],
       price_outcome \in {[raised |-> TRUE, value |-> 0],
                          [raised |-> FALSE, value |-> 2]} :
        ProcessTick(symbol, raising, outcomes, price_outcome)

ExtSpec == ExtInit /\ [][ExtNext]_vars

\* the rows of a CSV file: the columns load_csv requires
Times == {1, 2}
Rows == [symbol : SymbolArgs, time : Times, price : {1}]

RECURSIVE SeqsUpTo(_, _)
SeqsUpTo(S, n) ==
    IF n = 0 THEN {<<>>}
    ELSE LET shorter == SeqsUpTo(S, n - 1)
         IN  shorter \cup {Append(q, x) : q \in shorter, x \in S}

\* the files pd.read_csv can return with a row or more
Files == SeqsUpTo(Rows, MaxCalls) \ {<<>>}

\* df["symbol"].unique(): the symbols of the file by first appearance
RECURSIVE Unique(_)
Unique(file) ==
    IF file = <<>> THEN <<>>
    ELSE LET front == Unique(SubSeq(file, 1, Len(file) - 1))
             sym == file[Len(file)].symbol
         IN  IF \E i \in 1..Len(front) : front[i] = sym THEN front
             ELSE Append(front, sym)

\* df[df["symbol"] == sym].copy(): the rows of sym, in file order
SymbolRows(file, sym) == SelectSeq(file, LAMBDA r : r.symbol = sym)

\* self.data[sym] = rows on a dict, which keeps its keys in insertion order
DictSet(data, sym, rows) ==
    IF \E i \in 1..Len(data) : data[i].key = sym
    THEN [i \in 1..Len(data) |->
             IF data[i].key = sym THEN [key |-> sym, value |-> rows]
             ELSE data[i]]
    ELSE Append(data, [key |-> sym, value |-> rows])

\* the loop of load_csv over the symbols of the file
RECURSIVE StoreSymbols(_, _, _)
StoreSymbols(data, file, syms) ==
    IF syms = <<>> THEN data
    ELSE StoreSymbols(DictSet(data, Head(syms), SymbolRows(file, Head(syms))),
                      file, Tail(syms))

\* the rows run_prediction's nested loops visit, in the order of the visits
RECURSIVE Visits(_)
Visits(data) ==
    IF data = <<>> THEN <<>> ELSE Head(data).value \o Visits(Tail(data))

\* TradingGUI.load_csv with a file that has the three columns; the buttons
\* are not pressed while run_prediction is in its loop
LoadCsv(file) ==
    /\ gui_pc # "running"
    /\ gui_data' = StoreSymbols(gui_data, file, Unique(file))
    /\ Len(Visits(gui_data')) <= MaxCalls
    /\ UNCHANGED <<gui_pc, gui_todo, gui_log>>
    /\ UNCHANGED <<basic, extended>>

\* TradingGUI.run_prediction up to its loops
RunPredictionStart ==
    /\ gui_pc # "running"
    /\ gui_data # <<>>
    /\ calls + Len(Visits(gui_data)) <= MaxCalls
    /\ gui_pc' = "running"
    /\ gui_todo' = Visits(gui_data)
    /\ gui_log' = <<>>
    /\ UNCHANGED gui_data
    /\ UNCHANGED <<basic, extended>>

\* one pass of the inner loop of run_prediction, and what follows the loops
\* after the last pass; a KeyError of process_tick ends the handler
RunPredictionRow(price_outcome) ==
    /\ gui_pc = "running"
    /\ gui_todo # <<>>
    /\ LET row == Head(gui_todo)
       IN  /\ ProcessTickWith(row.symbol, row, 0, {}, EmptyDict,
                              price_outcome)
           /\ gui_log' = Append(gui_log, [symbol |-> row.symbol,
                                          time |-> row.time,
                                          outcome |-> ext_last'.outcome])
           /\ IF ext_last'.outcome # "return"
              THEN gui_pc' = "failed" /\ gui_todo' = <<>>
              ELSE /\ gui_todo' = Tail(gui_todo)
                   /\ gui_pc' = IF Tail(gui_todo) = <<>> THEN "done"
                                ELSE "running"
    /\ UNCHANGED gui_data

\* TradingGUI.__post_init__ with a detector that has neither pattern models
\* nor feature extractors, as the one it makes when it is given none
GuiInit == ExtInit /\ pattern_models = {}

GuiNext ==
    \/ \E file \in Files : LoadCsv(file)
    \/ RunPredictionStart
    \/ \E price_outcome \in {[raised |-> TRUE, value |-> 0],
                             [raised |-> FALSE, value |-> 2]} :
           RunPredictionRow(price_outcome)

GuiSpec == GuiInit /\ [][GuiNext]_vars

\* a program imports one of the two classes, which share their name, and
\* calls only that one
AnyInit == Init \/ ExtInit

AnyNext ==
    \/ variant = "basic" /\ Next
    \/ variant = "extended" /\ ExtNext

AnySpec == AnyInit /\ [][AnyNext]_vars

\* ----------------------------------------------------------------- claims
Min(a, b) == IF a < b THEN a ELSE b

\* the last k elements of seq
Tail_(seq, k) == SubSeq(seq, Len(seq) - k + 1, Len(seq))

\* the last call was add_tick for the registered symbol s
CalledFor(s) == last.op = "add_tick" /\ last.symbol = s

\* C1: after every add_tick, each symbol's window holds at most N ticks and
\* is exactly the last min(count, N) ticks received for it, in arrival order
C1_WindowBound ==
    constructed =>
        \A s \in Symbols :
            /\ Len(buffers[s]) <= window
            /\ buffers[s] = Tail_(received[s], Min(Len(received[s]), window))

\* C1 witness: a symbol has received more ticks than its window holds, so
\* the oldest tick has been evicted
C1_Witness ==
    \E s \in Symbols :
        /\ window >= 2
        /\ Len(received[s]) > window
        /\ buffers[s][1] # received[s][1]

\* the calls, counted in ticks received for s, at which s's window was full
\* of finite prices: the calls at which a fit can complete
FitPoints(s) ==
    {k \in 1..Len(received[s]) :
        /\ window >= 1
        /\ k >= window
        /\ AllFinite(PriceColumn(SubSeq(received[s], k - window + 1, k)))}

\* the least element of a non-empty set of integers
Least(S) == CHOOSE k \in S : \A j \in S : k <= j

\* C2 as stated: each symbol's models are fit exactly once, on the call of
\* its N-th accepted tick and on no later call
C2_FitOnNthTick ==
    (constructed /\ window >= 2) =>
        \A s \in Symbols :
            /\ trained[s] <=> Len(received[s]) >= window
            /\ fits[s] = IF Len(received[s]) >= window THEN 1 ELSE 0

\* C2 amended: each symbol's models are fit at most once, on the first call
\* at which its window is full and holds only finite prices (its N-th tick
\* when the first N prices are finite); trained[s] never becomes false
\* again and nothing is refit afterwards
C2_FitOnce ==
    /\ [](constructed =>
            \A s \in Symbols :
                /\ fits[s] = IF trained[s] THEN 1 ELSE 0
                /\ trained[s] <=> FitPoints(s) # {}
                /\ trained[s] <=> models[s].fitted
                /\ trained[s] <=> regressors[s].fitted
                /\ trained[s] =>
                     LET k == Least(FitPoints(s))
                         X == PriceColumn(
                                  SubSeq(received[s], k - window + 1, k))
                     IN  /\ models[s].X = X
                         /\ regressors[s] = LinearRegressionFit(X))
    /\ [][\A s \in Symbols :
              trained[s] =>
                  /\ trained'[s]
                  /\ models'[s] = models[s]
                  /\ regressors'[s] = regressors[s]
                  /\ fits'[s] = fits[s]]_vars

\* C2 witness: a symbol was fitted on an earlier call and has since
\* received further ticks on a full window
C2_Witness ==
    \E s \in Symbols :
        /\ window >= 2
        /\ trained[s]
        /\ CalledFor(s)
        /\ last.fit = "none"
        /\ last.outcome = "return"
        /\ Len(received[s]) > Least(FitPoints(s))

\* C3: an add_tick for a registered symbol that has received fewer than N
\* ticks, the new one included, returns anomaly_score 0.0 and the tick's
\* own price as prediction, and fits no model
C3_FallbackBeforeFull ==
    \A s \in Symbols :
        (CalledFor(s) /\ Len(received[s]) < window) =>
            /\ last.outcome = "return"
            /\ last.result.anomaly_score = ZeroScore
            /\ last.result.prediction = Float(last.tick.price)
            /\ last.fit = "none"
            /\ fits[s] = 0
            /\ ~trained[s]
            /\ ~models[s].fitted
            /\ ~regressors[s].fitted

\* C3 witness: the call that brings a symbol to N-1 ticks returned the
\* fallback values
C3_Witness ==
    \E s \in Symbols :
        /\ window >= 2
        /\ CalledFor(s)
        /\ Len(received[s]) = window - 1
        /\ last.outcome = "return"
        /\ last.result.prediction = Float(last.tick.price)

\* C4: add_tick with a symbol that was not passed to the constructor raises
\* the unknown-symbol error and changes no symbol's window, models or
\* trained flag; no tick is appended anywhere
C4_UnknownSymbolRejected ==
    [][(last'.op = "add_tick" /\ last'.symbol \notin Symbols /\ clock' # clock)
          => /\ last'.outcome = "ValueError"
             /\ buffers' = buffers
             /\ models' = models
             /\ regressors' = regressors
             /\ trained' = trained
             /\ received' = received]_vars

\* C4 witness: an unknown-symbol call was rejected while a registered
\* symbol already had ticks and fitted models
C4_Witness ==
    /\ last.op = "add_tick"
    /\ last.symbol = Unregistered
    /\ last.outcome = "ValueError"
    /\ \E s \in Symbols : trained[s] /\ Len(buffers[s]) >= 2

\* C5: add_tick for symbol s leaves the window, anomaly model, trend model
\* and trained flag of every other registered symbol as they were
C5_OtherSymbolsUnchanged ==
    [][\A t \in Symbols :
          (clock' # clock /\ last'.symbol # t) =>
              /\ buffers'[t] = buffers[t]
              /\ models'[t] = models[t]
              /\ regressors'[t] = regressors[t]
              /\ trained'[t] = trained[t]]_vars

\* C5 witness: a call fitted one symbol's models while the other symbol was
\* holding ticks but was still untrained
C5_Witness ==
    \E s \in Symbols, t \in Symbols :
        /\ s # t
        /\ CalledFor(s)
        /\ last.fit = "done"
        /\ Len(buffers[t]) >= 1
        /\ ~trained[t]

\* C6: constructing the detector with window < 2 fails, so no detector
\* exists with such a window
C6_InvalidConfigurationRejected == window < 2 => ~constructed

\* C7: when fitting fails on a full-window call, the call does not raise:
\* it returns the fallback anomaly_score 0.0 and leaves trained[symbol] false
C7_FitFailureSwallowed ==
    \A s \in Symbols :
        (window >= 2 /\ CalledFor(s) /\ last.fit = "raised") =>
            /\ last.outcome = "return"
            /\ last.result.anomaly_score = ZeroScore
            /\ ~trained[s]

\* C8 as stated: once a symbol's models are fitted, every later add_tick
\* for it returns the prediction the fit-triggering call returned
C8_EveryLaterCallReturnsIt ==
    \A s \in Symbols :
        (window >= 2 /\ CalledFor(s) /\ trained[s]) =>
            /\ last.outcome = "return"
            /\ last.result.prediction = fit_result[s].prediction

\* C8 amended: every full-window add_tick that returns evaluates the trend
\* model at index exactly N, and so returns the prediction of the
\* fit-triggering call whatever prices arrived since (a call whose window
\* holds a non-finite price raises instead of returning)
C8_PredictionAnchored ==
    \A s \in Symbols :
        (CalledFor(s) /\ last.full /\ last.outcome = "return") =>
            /\ Len(buffers[s]) = window
            /\ trained[s]
            /\ last.result.prediction = Predict(regressors[s], window)
            /\ last.result.prediction = fit_result[s].prediction

\* C8 witness: a call after the fit-triggering one returned the anchored
\* prediction although the line through the current window extrapolates
\* to another value
C8_Witness ==
    \E s \in Symbols :
        /\ window >= 2
        /\ CalledFor(s)
        /\ last.full
        /\ last.fit = "none"
        /\ last.outcome = "return"
        /\ last.result.prediction = fit_result[s].prediction
        /\ last.result.prediction #
             Predict(LinearRegressionFit(PriceColumn(buffers[s])), window)

RECURSIVE RatSum(_, _)
\* sum of the rationals f[i] for i in 1..n
RatSum(f, n) == IF n = 0 THEN <<0, 1>> ELSE RatAdd(RatSum(f, n - 1), f[n])

\* the residual y[i] - (a + b * (i-1)) of the line a + b*x at the point of
\* index i-1
Residual(y, a, b, i) ==
    RatAdd(Float(y[i]),
           RatMul(Float(0 - 1), RatAdd(a, RatMul(b, Float(i - 1)))))

\* the line a + b*x satisfies the normal equations of least squares over
\* the points (i-1, y[i])
IsLeastSquares(y, a, b) ==
    LET n == Len(y)
    IN  /\ RatSum([i \in 1..n |-> Residual(y, a, b, i)], n) = <<0, 1>>
        /\ RatSum([i \in 1..n |->
                      RatMul(Float(i - 1), Residual(y, a, b, i))], n)
             = <<0, 1>>

\* y is an arithmetic progression with step d
IsProgression(y, d) == \A i \in 1..(Len(y) - 1) : y[i + 1] - y[i] = d

ProcessedFor(s) == ext_last.op = "process_tick" /\ ext_last.symbol = s

\* the extractors that did not raise and that return the feature k
Providers(k) ==
    {i \in 1..NumExtractors :
        i \notin ext_last.extractors_raised /\ k \in DOMAIN ExtractorResult(i)}

\* the greatest element of a non-empty set of integers
Greatest(S) == CHOOSE k \in S : \A j \in S : j <= k

\* C10: process_tick never raises because a feature extractor or a pattern
\* model raised: it returns for every registered symbol whatever raised;
\* every pattern model has an entry, None exactly for the models that
\* raised and the model's own value otherwise; the features are those of
\* the extractors that did not raise; and the tick is recorded
C10_FailuresIsolated ==
    /\ ext_last.op = "process_tick" =>
           (ext_last.outcome = "return" <=> ext_last.symbol \in Symbols)
    /\ \A s \in Symbols :
           ProcessedFor(s) =>
               LET patterns == ext_last.result.patterns
                   features == ext_last.features
                   history == pattern_history[s]
               IN  /\ DOMAIN patterns = pattern_models
                   /\ \A name \in pattern_models :
                          patterns[name] =
                              IF ext_last.outcomes[name].raised THEN None
                              ELSE Some(ext_last.outcomes[name].value)
                   /\ DOMAIN features =
                          {k \in {"ret", "vol"} : Providers(k) # {}}
                   /\ \A k \in DOMAIN features :
                          features[k] =
                              ExtractorResult(Greatest(Providers(k)))[k]
                   /\ Len(history) >= 1
                   /\ history[Len(history)].tick = ext_last.tick
                   /\ history[Len(history)].patterns = patterns

\* C10 witness: a call returned and was recorded although the first
\* extractor and one pattern model raised; the other model's result and
\* the second extractor's features were kept
C10_Witness ==
    \E s \in Symbols :
        /\ pattern_models = PatternNames
        /\ ProcessedFor(s)
        /\ ext_last.outcome = "return"
        /\ ext_last.extractors_raised = {1}
        /\ ext_last.outcomes["spike"].raised
        /\ ext_last.result.patterns["spike"] = None
        /\ ext_last.result.patterns["spoof"] = Some(1)
        /\ ext_last.features = ExtractorResult(2)
        /\ Len(pattern_history[s]) = 2

\* the pattern models that returned a truthy value on the last call
TriggeredModels ==
    {name \in pattern_models :
        ~ext_last.outcomes[name].raised /\ ext_last.outcomes[name].value # 0}

C12_SymbolsFixed ==
    /\ DOMAIN buffers = Symbols
    /\ DOMAIN models = Symbols
    /\ DOMAIN regressors = Symbols
    /\ DOMAIN trained = Symbols
    /\ DOMAIN pattern_history = Symbols
    /\ (last.op = "add_tick" /\ last.symbol \notin Symbols)
           => last.outcome = "ValueError"
    /\ (ext_last.op = "process_tick" /\ ext_last.symbol \notin Symbols)
           => ext_last.outcome = "KeyError"

\* C12 witness: the extended variant rejected an unregistered symbol after
\* it had recorded a tick of a registered one
C12_Witness ==
    /\ ext_last.op = "process_tick"
    /\ ext_last.symbol = Unregistered
    /\ ext_last.outcome = "KeyError"
    /\ \E s \in Symbols : Len(pattern_history[s]) = 1

\* how add_tick ends and what it predicts, as a function of the window
\* argument and of the sequence h of ticks fed for the symbol so far, the
\* new tick included; it reads no detector state and no random state
Determined(w, h) ==
    LET n == Len(h)
        fitpoints == {k \in 1..n :
                         /\ w >= 1
                         /\ k >= w
                         /\ AllFinite(PriceColumn(SubSeq(h, k - w + 1, k)))}
    IN  IF n < w
        THEN [outcome |-> "return", prediction |-> <<h[n].price, 1>>]
        ELSE IF w = 0
        THEN [outcome |-> "KeyError", prediction |-> <<0, 1>>]
        ELSE IF n \notin fitpoints
        THEN [outcome |-> "ValueError", prediction |-> <<0, 1>>]
        ELSE LET k == Least(fitpoints)
                 X == PriceColumn(SubSeq(h, k - w + 1, k))
             IN  [outcome |-> "return",
                  prediction |-> Predict(LinearRegressionFit(X), w)]

\* C13: the prediction add_tick returns is a function of the window
\* argument and of the ordered ticks fed for the symbol, whatever the random
\* state of the anomaly model and whatever was fed for other symbols; so two
\* detectors built alike and fed the same sequence return equal predictions
\* at every step
C13_PredictionDetermined ==
    \A s \in Symbols :
        CalledFor(s) =>
            /\ last.outcome = Determined(window, received[s]).outcome
            /\ last.result.prediction =
                   Determined(window, received[s]).prediction

\* C13 witness: a symbol fitted earlier returned a prediction on a later
\* full window while the other symbol's ticks were interleaved
C13_Witness ==
    \E s \in Symbols, t \in Symbols :
        /\ s # t
        /\ window >= 2
        /\ CalledFor(s)
        /\ last.outcome = "return"
        /\ last.fit = "none"
        /\ Len(received[s]) > window
        /\ Len(received[t]) >= 1

C15_HistoryAppendOnly ==
    /\ [](\A s \in Symbols :
             \A i \in 1..Len(pattern_history[s]) :
                 /\ pattern_history[s][i].tick.symbol = s
                 /\ pattern_history[s][i].tick.time = i - 1)
    /\ [][calls' # calls =>
             IF ext_last'.outcome = "return"
             THEN LET s == ext_last'.symbol
                      result == ext_last'.result
                  IN  /\ s \in Symbols
                      /\ pattern_history'[s] =
                             Append(pattern_history[s],
                                    [tick |-> ext_last'.tick,
                                     patterns |-> result.patterns,
                                     manipulation |->
                                         result.manipulation_score,
                                     prediction |-> result.prediction,
                                     confidence |-> result.confidence])
                      /\ \A t \in Symbols \ {s} :
                             pattern_history'[t] = pattern_history[t]
             ELSE pattern_history' = pattern_history]_vars

\* C15 witness: a symbol's history holds the records of two calls, the
\* earlier one first, with different patterns
C15_Witness ==
    \E s \in Symbols :
        /\ ProcessedFor(s)
        /\ Len(pattern_history[s]) = 2
        /\ pattern_history[s][2].patterns = ext_last.result.patterns
        /\ pattern_history[s][1].patterns # pattern_history[s][2].patterns

\* C16: run_prediction calls process_tick only for symbols the detector was
\* constructed with, for each symbol in the time order of its rows, and, when
\* it has ended, exactly once for every loaded row.
C16_OncePerRowInTimeOrder ==
    /\ \A i \in 1..Len(gui_log) : gui_log[i].symbol \in Symbols
    /\ \A i, j \in 1..Len(gui_log) :
           (i < j /\ gui_log[i].symbol = gui_log[j].symbol)
               => gui_log[i].time <= gui_log[j].time
    /\ gui_pc \in {"done", "failed"} =>
           /\ Len(gui_log) = Len(Visits(gui_data))
           /\ \A i \in 1..Len(gui_log) :
                  /\ gui_log[i].symbol = Visits(gui_data)[i].symbol
                  /\ gui_log[i].time = Visits(gui_data)[i].time

\* C16, rows of one registered symbol out of time order are fed as they are
C16_OutOfOrderRun ==
    ~ (/\ gui_pc = "done"
       /\ \E i, j \in 1..Len(gui_log) :
              /\ i < j /\ gui_log[i].symbol = gui_log[j].symbol
              /\ gui_log[i].time > gui_log[j].time)

\* C16, a row of an unregistered symbol reaches process_tick
C16_UnregisteredNeverCalled ==
    \A i \in 1..Len(gui_log) : gui_log[i].symbol \in Symbols

\* C17: a trained symbol's window is full (its length is N); no step makes a
\* window shorter; and an add_tick for a symbol whose window was already
\* full takes the full-window branch
C17_TrainedImpliesFull ==
    /\ [](\A s \in Symbols : trained[s] => Len(buffers[s]) = window)
    /\ [][\A s \in Symbols : Len(buffers'[s]) >= Len(buffers[s])]_vars
    /\ [][\A s \in Symbols :
              (/\ clock' # clock
               /\ last'.symbol = s
               /\ Len(buffers[s]) = window) => last'.full]_vars

\* C17 witness: a trained symbol whose full window took a further tick in
\* the full-window branch and kept its length
C17_Witness ==
    \E s \in Symbols :
        /\ window >= 2
        /\ trained[s]
        /\ CalledFor(s)
        /\ last.full
        /\ last.fit = "none"
        /\ Len(received[s]) > window
        /\ Len(buffers[s]) = window

\* an add_tick step for the registered symbol s that raised
RaisedFor(s) ==
    /\ clock' # clock
    /\ last'.op = "add_tick"
    /\ last'.symbol = s
    /\ last'.outcome # "return"

\* C18 as stated: when an add_tick for a registered symbol raises in fitting
\* or scoring, the tick is already in the symbol's window and
\* trained[symbol] is still false, so that the next call tries the fit again
C18_RaiseLeavesUntrained ==
    [][\A s \in Symbols :
          (window >= 2 /\ RaisedFor(s)) =>
              /\ buffers'[s][Len(buffers'[s])] = last'.tick
              /\ ~trained'[s]]_vars

\* C18 amended: add_tick appends before it fits or scores, and a raise takes
\* nothing back: the tick is in the window (the oldest evicted from a window
\* that was full) and models and trained[symbol] are as they were. A raise
\* of the fit leaves trained[symbol] false, and the next call for the
\* symbol tries the fit again on the window slid by one tick; a raise of the
\* scoring of a trained symbol leaves it trained, and nothing is refit
C18_NotAtomicOnFailure ==
    /\ [][\A s \in Symbols :
              RaisedFor(s) =>
                  /\ received'[s] = Append(received[s], last'.tick)
                  /\ buffers'[s] = Tail_(received'[s],
                                        Min(Len(received'[s]), window))
                  /\ window >= 1 =>
                         /\ buffers'[s][Len(buffers'[s])] = last'.tick
                         /\ Len(buffers[s]) = window =>
                                buffers'[s] = Append(Tail(buffers[s]),
                                                     last'.tick)
                  /\ last'.full
                  /\ trained'[s] = trained[s]
                  /\ models' = models /\ regressors' = regressors
                  /\ window >= 1 =>
                         (last'.fit = "raised" <=> ~trained[s])]_vars
    /\ [][\A s \in Symbols :
              (/\ clock' # clock /\ last'.symbol = s
               /\ window >= 1
               /\ Len(buffers[s]) = window
               /\ ~trained[s]) =>
                  /\ last'.fit \in {"done", "raised"}
                  /\ buffers'[s] = Append(Tail(buffers[s]), last'.tick)
                  /\ last'.fit = "done" =>
                         models'[s].X = PriceColumn(buffers'[s])]_vars

\* C18 witness: a fit raised and left its tick in the window, and the next
\* call for the symbol fitted on the window slid past the first one
C18_Witness ==
    \E s \in Symbols :
        /\ window >= 2
        /\ CalledFor(s)
        /\ last.fit = "done"
        /\ Len(received[s]) > window
        /\ ~AllFinite(PriceColumn(SubSeq(received[s], 1, window)))
        /\ models[s].X = PriceColumn(buffers[s])

\* C19: in the extended variant manipulation_scores is never written after
\* construction: it is 0.0 for every symbol after any sequence of
\* process_tick calls, whatever manipulation_score the calls returned
C19_ManipulationScoresNeverWritten ==
    /\ DOMAIN manipulation_scores = Symbols
    /\ \A s \in Symbols : manipulation_scores[s] = Float(0)

\* C19 witness: a call returned a manipulation_score above zero for a symbol
\* whose entry of manipulation_scores is still 0.0
C19_Witness ==
    /\ ext_last.op = "process_tick"
    /\ ext_last.outcome = "return"
    /\ ext_last.symbol \in Symbols
    /\ ext_last.result.manipulation_score # Float(0)
    /\ ext_last.result.manipulation_score =
           pattern_history[ext_last.symbol][
               Len(pattern_history[ext_last.symbol])].manipulation
    /\ manipulation_scores[ext_last.symbol] = Float(0)

============================================================================
